---------------------------- MODULE Spec2Model ----------------------------
(***************************************************************************)
(* Model of lib/disco/json.py: the import-time resolution of the two names *)
(* loads and dumps from the first usable JSON library.                     *)
(*                                                                         *)
(* The state is the module's namespace (json, loads, dumps), the position  *)
(* of the module-level code, the exception that left it, and the part of   *)
(* the process environment the code reads: sys.path, the working           *)
(* directory, the symlinks realpath resolves, and what each of the three   *)
(* libraries offers when imported.                                         *)
(***************************************************************************)
EXTENDS Naturals, Sequences, FiniteSets, TLC

\* Longest sys.path the model enumerates.
MaxPath == 2
\* Number of changes made to the environment after the module was imported.
MaxEnvChanges == 1

\* Real directories, and the symlinks to directories.
Dirs == {"/d1", "/d2"}
Links == {"/l1"}
\* The spellings a sys.path entry can have: '' and '.' are the working
\* directory, a directory's own name, and a symlink to a directory.
Spellings == {"", "."} \cup Dirs \cup Links

\* What a library is on disk: how loading it ends, and which of its entry
\* points exist once it is loaded.
Lib(load, attrs) == [load |-> load, attrs |-> attrs]
Absent == Lib("absent", {})
\* A file or package named json in a directory.
JsonKinds ==
    {Absent, Lib("ImportError", {}), Lib("Error", {}),
     Lib("ok", {"loads", "dumps"}), Lib("ok", {"loads"}), Lib("ok", {"dumps"})}
SimplejsonKinds ==
    {Absent, Lib("Error", {}),
     Lib("ok", {"loads", "dumps"}), Lib("ok", {"loads"}), Lib("ok", {"dumps"})}
CjsonKinds ==
    {Absent, Lib("Error", {}),
     Lib("ok", {"decode", "encode"}), Lib("ok", {"decode"}), Lib("ok", {"encode"})}

\* A function object: the entry point `name` of library `lib`; for json,
\* `origin` is the directory the module was loaded from.
FuncRef(lib, origin, name) == [lib |-> lib, origin |-> origin, name |-> name]
Unbound == FuncRef("none", "none", "none")
\* A module object bound to the name json.
NoModule == [origin |-> "none", attrs |-> {}]
NotFound == "none"

\* Arguments callers pass to loads and dumps.
Inputs == {"v", "bad"}
NoCall == [fn |-> "none", arg |-> "none", result |-> Unbound]

VARIABLES
    sys_path,     \* sys.path
    cwd,          \* the process's working directory
    link,         \* symlink -> the directory it points to
    jsonAt,       \* directory -> the json module it holds
    simplejson,   \* what `import simplejson` finds
    cjson,        \* what `import cjson` finds
    pc,           \* position in the module-level code
    found,        \* directory imp.find_module returned
    json,         \* the name json
    loads,        \* the name loads
    dumps,        \* the name dumps
    error,        \* the exception propagating out of the module
    attempted,    \* the strategies whose import ran
    envChanges,   \* environment changes made after the import
    lastCall      \* the last call through loads or dumps

env == <<sys_path, cwd, link, jsonAt, simplejson, cjson>>
names == <<found, json, loads, dumps, error, attempted>>
vars == <<sys_path, cwd, link, jsonAt, simplejson, cjson, pc, found, json,
          loads, dumps, error, attempted, envChanges, lastCall>>

\* os.path.realpath: '' and '.' are the working directory, a symlink is
\* the directory it points to.
realpath(path) ==
    IF path \in {"", "."} THEN cwd
    ELSE IF path \in Links THEN link[path]
    ELSE path

\* The mutant compares the entry as spelled with the working directory.
imp_path_spelled ==
    SelectSeq(sys_path, LAMBDA path : path # realpath("."))

imp_path ==
    SelectSeq(sys_path, LAMBDA path : realpath(path) # realpath("."))

\* imp.find_module('json', path): the first entry of path whose directory
\* holds a json module; NotFound stands for its ImportError.
find_module(path) ==
    LET hits == {i \in 1..Len(path) : jsonAt[realpath(path[i])] # Absent}
    IN  IF hits = {} THEN NotFound
        ELSE realpath(path[CHOOSE i \in hits : \A j \in hits : i <= j])

PathsUpTo(n) == UNION {[1..k -> Spellings] : k \in 0..n}

Init ==
    /\ sys_path \in PathsUpTo(MaxPath)
    /\ cwd \in Dirs
    /\ link \in [Links -> Dirs]
    /\ jsonAt \in [Dirs -> JsonKinds]
    /\ simplejson \in SimplejsonKinds
    /\ cjson \in CjsonKinds
    /\ pc = "find"
    /\ found = NotFound
    /\ json = NoModule
    /\ loads = Unbound
    /\ dumps = Unbound
    /\ error = "none"
    /\ attempted = {}
    /\ envChanges = 0
    /\ lastCall = NoCall

\* The mutant resolves again whenever it is reached after the import.
FindModule_again ==
    /\ pc \in {"find", "done"}
    /\ attempted' = attempted \cup {"json"}
    /\ found' = find_module(imp_path)
    /\ pc' = IF found' = NotFound THEN "simplejson" ELSE "load"
    /\ UNCHANGED <<env, json, loads, dumps, error, envChanges, lastCall>>

\* Line 9, the argument: imp.find_module('json', imp_path()).
FindModule ==
    /\ pc = "find"
    /\ attempted' = attempted \cup {"json"}
    /\ found' = find_module(imp_path)
    /\ pc' = IF found' = NotFound THEN "simplejson" ELSE "load"
    /\ UNCHANGED <<env, json, loads, dumps, error, envChanges, lastCall>>

\* The mutant catches every exception of the load, as a bare except would.
LoadModule_catchall ==
    /\ pc = "load"
    /\ LET m == jsonAt[found] IN
       \/ /\ m.load = "ok"
          /\ json' = [origin |-> found, attrs |-> m.attrs]
          /\ pc' = "bind"
       \/ /\ m.load \in {"ImportError", "Error"}
          /\ pc' = "simplejson"
          /\ UNCHANGED json
    /\ UNCHANGED <<env, found, loads, dumps, error, attempted, envChanges, lastCall>>

\* Line 9, the call and the assignment: json = imp.load_module('json', ...).
LoadModule ==
    /\ pc = "load"
    /\ LET m == jsonAt[found] IN
       \/ /\ m.load = "ok"
          /\ json' = [origin |-> found, attrs |-> m.attrs]
          /\ pc' = "bind"
          /\ UNCHANGED error
       \/ /\ m.load = "ImportError"
          /\ pc' = "simplejson"
          /\ UNCHANGED <<json, error>>
       \/ /\ m.load = "Error"
          /\ pc' = "failed"
          /\ error' = "Error"
          /\ UNCHANGED json
    /\ UNCHANGED <<env, found, loads, dumps, attempted, envChanges, lastCall>>

\* The mutant binds the pair and goes on to the fallbacks all the same.
BindJson_fallthrough ==
    /\ pc = "bind"
    /\ \/ /\ {"loads", "dumps"} \subseteq json.attrs
          /\ loads' = FuncRef("json", json.origin, "loads")
          /\ dumps' = FuncRef("json", json.origin, "dumps")
          /\ pc' = "simplejson"
          /\ UNCHANGED error
       \/ /\ ~({"loads", "dumps"} \subseteq json.attrs)
          /\ pc' = "failed"
          /\ error' = "AttributeError"
          /\ UNCHANGED <<loads, dumps>>
    /\ UNCHANGED <<env, found, json, attempted, envChanges, lastCall>>

\* Line 10: loads, dumps = json.loads, json.dumps.
BindJson ==
    /\ pc = "bind"
    /\ \/ /\ {"loads", "dumps"} \subseteq json.attrs
          /\ loads' = FuncRef("json", json.origin, "loads")
          /\ dumps' = FuncRef("json", json.origin, "dumps")
          /\ pc' = "done"
          /\ UNCHANGED error
       \/ /\ ~({"loads", "dumps"} \subseteq json.attrs)
          /\ pc' = "failed"
          /\ error' = "AttributeError"
          /\ UNCHANGED <<loads, dumps>>
    /\ UNCHANGED <<env, found, json, attempted, envChanges, lastCall>>

\* The mutant binds the two names crosswise.
ImportSimplejson_swapped ==
    /\ pc = "simplejson"
    /\ attempted' = attempted \cup {"simplejson"}
    /\ \/ /\ simplejson.load = "Error"
          /\ pc' = "failed"
          /\ error' = "Error"
          /\ UNCHANGED <<loads, dumps>>
       \/ /\ simplejson.load # "Error"
          /\ ~({"loads", "dumps"} \subseteq simplejson.attrs)
          /\ pc' = "cjson_decode"
          /\ UNCHANGED <<loads, dumps, error>>
       \/ /\ {"loads", "dumps"} \subseteq simplejson.attrs
          /\ loads' = FuncRef("simplejson", "site", "dumps")
          /\ dumps' = FuncRef("simplejson", "site", "loads")
          /\ pc' = "done"
          /\ UNCHANGED error
    /\ UNCHANGED <<env, found, json, envChanges, lastCall>>

\* The mutant imports the names in the other order: dumps, loads.
ImportSimplejson_dumps_first ==
    /\ pc = "simplejson"
    /\ attempted' = attempted \cup {"simplejson"}
    /\ \/ /\ simplejson.load = "Error"
          /\ pc' = "failed"
          /\ error' = "Error"
          /\ UNCHANGED <<loads, dumps>>
       \/ /\ simplejson.load # "Error"
          /\ "dumps" \notin simplejson.attrs
          /\ pc' = "cjson_decode"
          /\ UNCHANGED <<loads, dumps, error>>
       \/ /\ "dumps" \in simplejson.attrs
          /\ "loads" \notin simplejson.attrs
          /\ dumps' = FuncRef("simplejson", "site", "dumps")
          /\ pc' = "cjson_decode"
          /\ UNCHANGED <<loads, error>>
       \/ /\ {"loads", "dumps"} \subseteq simplejson.attrs
          /\ loads' = FuncRef("simplejson", "site", "loads")
          /\ dumps' = FuncRef("simplejson", "site", "dumps")
          /\ pc' = "done"
          /\ UNCHANGED error
    /\ UNCHANGED <<env, found, json, envChanges, lastCall>>

\* Line 13: from simplejson import loads, dumps.  The names are bound one
\* by one, so loads is bound before a missing dumps raises ImportError.
ImportSimplejson ==
    /\ pc = "simplejson"
    /\ attempted' = attempted \cup {"simplejson"}
    /\ \/ /\ simplejson.load = "Error"
          /\ pc' = "failed"
          /\ error' = "Error"
          /\ UNCHANGED <<loads, dumps>>
       \/ /\ simplejson.load # "Error"
          /\ "loads" \notin simplejson.attrs
          /\ pc' = "cjson_decode"
          /\ UNCHANGED <<loads, dumps, error>>
       \/ /\ "loads" \in simplejson.attrs
          /\ "dumps" \notin simplejson.attrs
          /\ loads' = FuncRef("simplejson", "site", "loads")
          /\ pc' = "cjson_decode"
          /\ UNCHANGED <<dumps, error>>
       \/ /\ {"loads", "dumps"} \subseteq simplejson.attrs
          /\ loads' = FuncRef("simplejson", "site", "loads")
          /\ dumps' = FuncRef("simplejson", "site", "dumps")
          /\ pc' = "done"
          /\ UNCHANGED error
    /\ UNCHANGED <<env, found, json, envChanges, lastCall>>

\* The mutant imports encode under the name loads.
ImportCjsonDecode_encode ==
    /\ pc = "cjson_decode"
    /\ attempted' = attempted \cup {"cjson"}
    /\ \/ /\ cjson.load = "Error"
          /\ pc' = "failed"
          /\ error' = "Error"
          /\ UNCHANGED loads
       \/ /\ cjson.load # "Error"
          /\ "encode" \notin cjson.attrs
          /\ pc' = "failed"
          /\ error' = "ImportError"
          /\ UNCHANGED loads
       \/ /\ "encode" \in cjson.attrs
          /\ loads' = FuncRef("cjson", "site", "encode")
          /\ pc' = "cjson_encode"
          /\ UNCHANGED error
    /\ UNCHANGED <<env, found, json, dumps, envChanges, lastCall>>

\* The mutant imports cjson and checks decode, but leaves loads as it is.
ImportCjsonDecode_skip ==
    /\ pc = "cjson_decode"
    /\ attempted' = attempted \cup {"cjson"}
    /\ \/ /\ cjson.load = "Error"
          /\ pc' = "failed"
          /\ error' = "Error"
       \/ /\ cjson.load # "Error"
          /\ "decode" \notin cjson.attrs
          /\ pc' = "failed"
          /\ error' = "ImportError"
       \/ /\ "decode" \in cjson.attrs
          /\ pc' = "cjson_encode"
          /\ UNCHANGED error
    /\ UNCHANGED <<env, found, json, loads, dumps, envChanges, lastCall>>

\* Line 15: from cjson import decode as loads.
ImportCjsonDecode ==
    /\ pc = "cjson_decode"
    /\ attempted' = attempted \cup {"cjson"}
    /\ \/ /\ cjson.load = "Error"
          /\ pc' = "failed"
          /\ error' = "Error"
          /\ UNCHANGED loads
       \/ /\ cjson.load # "Error"
          /\ "decode" \notin cjson.attrs
          /\ pc' = "failed"
          /\ error' = "ImportError"
          /\ UNCHANGED loads
       \/ /\ "decode" \in cjson.attrs
          /\ loads' = FuncRef("cjson", "site", "decode")
          /\ pc' = "cjson_encode"
          /\ UNCHANGED error
    /\ UNCHANGED <<env, found, json, dumps, envChanges, lastCall>>

\* The mutant imports decode under the name dumps as well.
ImportCjsonEncode_decode ==
    /\ pc = "cjson_encode"
    /\ \/ /\ "encode" \notin cjson.attrs
          /\ pc' = "failed"
          /\ error' = "ImportError"
          /\ UNCHANGED dumps
       \/ /\ "encode" \in cjson.attrs
          /\ dumps' = FuncRef("cjson", "site", "decode")
          /\ pc' = "done"
          /\ UNCHANGED error
    /\ UNCHANGED <<env, found, json, loads, attempted, envChanges, lastCall>>

\* Line 16: from cjson import encode as dumps.
ImportCjsonEncode ==
    /\ pc = "cjson_encode"
    /\ \/ /\ "encode" \notin cjson.attrs
          /\ pc' = "failed"
          /\ error' = "ImportError"
          /\ UNCHANGED dumps
       \/ /\ "encode" \in cjson.attrs
          /\ dumps' = FuncRef("cjson", "site", "encode")
          /\ pc' = "done"
          /\ UNCHANGED error
    /\ UNCHANGED <<env, found, json, loads, attempted, envChanges, lastCall>>

\* The module-level code of lines 8-16, statement by statement.
Next ==
    \/ FindModule
    \/ LoadModule
    \/ BindJson
    \/ ImportSimplejson
    \/ ImportCjsonDecode
    \/ ImportCjsonEncode

Spec == Init /\ [][Next]_vars

(***************************************************************************)
(* The rest of the process lifetime: once the module is imported, the     *)
(* process may change everything the resolution read, and callers call    *)
(* through the two names.                                                  *)
(***************************************************************************)

\* What the function object f does on argument x: the library's own
\* outcome, a returned value or a raised error, left uninterpreted.
Apply(f, x) ==
    [kind |-> IF x = "bad" THEN "raise" ELSE "return", by |-> f, on |-> x]

Imported == pc = "done" /\ envChanges < MaxEnvChanges

\* os.chdir(d) by the process.
Chdir(d) ==
    /\ Imported
    /\ d # cwd
    /\ cwd' = d
    /\ envChanges' = envChanges + 1
    /\ UNCHANGED <<sys_path, link, jsonAt, simplejson, cjson, pc, names, lastCall>>

\* sys.path.insert(0, p) and sys.path.pop(0) by the process.
ChangePath ==
    /\ Imported
    /\ \/ \E p \in Spellings :
            /\ Len(sys_path) < MaxPath
            /\ sys_path' = <<p>> \o sys_path
       \/ /\ sys_path # <<>>
          /\ sys_path' = Tail(sys_path)
    /\ envChanges' = envChanges + 1
    /\ UNCHANGED <<cwd, link, jsonAt, simplejson, cjson, pc, names, lastCall>>

\* A library is installed, removed or replaced on disk.
ChangeLibraries ==
    /\ Imported
    /\ \/ \E d \in Dirs, k \in JsonKinds :
            /\ k # jsonAt[d]
            /\ jsonAt' = [jsonAt EXCEPT ![d] = k]
            /\ UNCHANGED <<simplejson, cjson>>
       \/ \E k \in SimplejsonKinds :
            /\ k # simplejson
            /\ simplejson' = k
            /\ UNCHANGED <<jsonAt, cjson>>
       \/ \E k \in CjsonKinds :
            /\ k # cjson
            /\ cjson' = k
            /\ UNCHANGED <<jsonAt, simplejson>>
    /\ envChanges' = envChanges + 1
    /\ UNCHANGED <<sys_path, cwd, link, pc, names, lastCall>>

\* A caller's loads(x): the call goes to the object the name is bound to.
CallLoads(x) ==
    /\ pc = "done"
    /\ lastCall' = [fn |-> "loads", arg |-> x, result |-> Apply(loads, x)]
    /\ UNCHANGED <<env, pc, names, envChanges>>

\* A caller's dumps(x).
CallDumps(x) ==
    /\ pc = "done"
    /\ lastCall' = [fn |-> "dumps", arg |-> x, result |-> Apply(dumps, x)]
    /\ UNCHANGED <<env, pc, names, envChanges>>

\* A process that starts in one layout of the file system.
InitLife ==
    /\ Init
    /\ cwd = "/d1"
    /\ link = [l \in Links |-> "/d1"]
    /\ sys_path = <<"", "/d2">>

NextLife ==
    \/ Next
    \/ \E d \in Dirs : Chdir(d)
    \/ ChangePath
    \/ ChangeLibraries
    \/ \E x \in Inputs : CallLoads(x)
    \/ \E x \in Inputs : CallDumps(x)

SpecLife == InitLife /\ [][NextLife]_vars

(***************************************************************************)
(* What the environment holds for each strategy, read off the environment  *)
(* alone.  During the import (specification Spec) the environment does not *)
(* change, so these say how each strategy ends when it is tried.           *)
(***************************************************************************)
Terminal == pc \in {"done", "failed"}
AllStrategies == {"json", "simplejson", "cjson"}
JsonDir == find_module(imp_path)
JsonFound == JsonDir # NotFound
JsonHasPair ==
    /\ JsonFound
    /\ jsonAt[JsonDir].load = "ok"
    /\ {"loads", "dumps"} \subseteq jsonAt[JsonDir].attrs
\* Found, but loading raises another error or an entry point is missing.
JsonUnusable ==
    /\ JsonFound
    /\ jsonAt[JsonDir].load # "ImportError"
    /\ ~JsonHasPair
JsonImportError == ~JsonFound \/ jsonAt[JsonDir].load = "ImportError"
SimplejsonHasPair == {"loads", "dumps"} \subseteq simplejson.attrs
SimplejsonImportError == simplejson.load # "Error" /\ ~SimplejsonHasPair
CjsonHasPair == {"decode", "encode"} \subseteq cjson.attrs
CjsonImportError == cjson.load # "Error" /\ ~CjsonHasPair
NonePresent == ~JsonFound /\ simplejson = Absent /\ cjson = Absent
JsonLoaded == json # NoModule
BoundTo(lib, origin, l, d) ==
    /\ loads = FuncRef(lib, origin, l)
    /\ dumps = FuncRef(lib, origin, d)

\* C1, as stated: whenever the json module is found and loaded from the
\* filtered search path, the import ends with loads and dumps bound to
\* that module's loads and dumps, and no fallback is attempted.
C1_AsStated ==
    (Terminal /\ JsonLoaded) =>
        /\ BoundTo("json", json.origin, "loads", "dumps")
        /\ attempted = {"json"}

\* C1, amended: whenever the json module is found and loaded from the
\* filtered search path, neither simplejson nor cjson is ever attempted,
\* whatever they offer; and when that module provides both loads and
\* dumps, the import ends successfully with loads and dumps bound to
\* that module's loads and dumps.
C1_PreferredWins ==
    JsonLoaded =>
        /\ attempted = {"json"}
        /\ json.origin = JsonDir
        /\ pc \in {"bind", "done", "failed"}
        /\ (Terminal /\ {"loads", "dumps"} \subseteq json.attrs) =>
              /\ pc = "done"
              /\ BoundTo("json", json.origin, "loads", "dumps")

C1_Witness ==
    /\ pc = "done"
    /\ JsonLoaded
    /\ SimplejsonHasPair
    /\ CjsonHasPair

\* C2: when json is not found on the filtered search path and simplejson
\* offers both loads and dumps, the import never fails and never attempts
\* cjson, it can always take its next step until it is done, and it ends
\* with loads and dumps bound to simplejson.loads and simplejson.dumps.
C2_SimplejsonFallback ==
    (~JsonFound /\ SimplejsonHasPair) =>
        /\ pc \in {"find", "simplejson", "done"}
        /\ "cjson" \notin attempted
        /\ pc # "done" => ENABLED Next
        /\ pc = "done" => BoundTo("simplejson", "site", "loads", "dumps")

C2_Witness ==
    /\ pc = "done"
    /\ ~JsonFound
    /\ loads.lib = "simplejson"
    /\ CjsonHasPair

\* C3: when json is not found on the filtered search path, simplejson is
\* absent and cjson offers decode and encode, the import never fails, can
\* always take its next step until it is done, and ends with loads bound
\* to cjson.decode and dumps bound to cjson.encode.
C3_CjsonFallback ==
    (~JsonFound /\ simplejson = Absent /\ CjsonHasPair) =>
        /\ pc # "failed"
        /\ error = "none"
        /\ pc # "done" => ENABLED Next
        /\ pc = "done" => BoundTo("cjson", "site", "decode", "encode")

C3_Witness ==
    /\ pc = "done"
    /\ ~JsonFound
    /\ simplejson = Absent
    /\ loads.name = "decode"
    /\ dumps.name = "encode"

\* C4, as stated: whenever all three strategies fail, each for want of
\* its library or of an entry point, the import fails with an import
\* error and neither loads nor dumps is bound.
C4_AsStated ==
    (pc = "failed" /\ JsonImportError /\ SimplejsonImportError
        /\ CjsonImportError) =>
        /\ error = "ImportError"
        /\ loads = Unbound
        /\ dumps = Unbound

\* C4, amended: whenever each of the three strategies ends in an import
\* error, the import never succeeds and fails, after trying all three,
\* with an import error; the pair is not bound: dumps is unbound, and
\* loads is bound only if simplejson offered loads without dumps (bound to
\* simplejson.loads) or cjson offered decode without encode (bound to
\* cjson.decode).  When none of the three libraries is present, neither
\* loads nor dumps is bound in any state.
C4_AllFail ==
    /\ (JsonImportError /\ SimplejsonImportError /\ CjsonImportError) =>
          /\ pc # "done"
          /\ error \in {"none", "ImportError"}
          /\ dumps = Unbound
          /\ pc # "failed" => ENABLED Next
          /\ pc = "failed" =>
                /\ error = "ImportError"
                /\ attempted = AllStrategies
                /\ \/ loads = Unbound
                   \/ /\ loads = FuncRef("simplejson", "site", "loads")
                      /\ simplejson.attrs = {"loads"}
                      /\ "decode" \notin cjson.attrs
                   \/ /\ loads = FuncRef("cjson", "site", "decode")
                      /\ cjson.attrs = {"decode"}
    /\ NonePresent => (loads = Unbound /\ dumps = Unbound)

C4_Witness ==
    /\ pc = "failed"
    /\ NonePresent
    /\ error = "ImportError"
    /\ attempted = AllStrategies

\* C5: imp_path() has no entry whose real path is the working directory's
\* real path, however the entry is spelled, and the json module that
\* strategy 1 finds and loads is never the one in the working directory.
C5_CwdNeverSource ==
    /\ \A i \in 1..Len(imp_path) : realpath(imp_path[i]) # realpath(".")
    /\ found # NotFound => found # cwd
    /\ JsonLoaded => json.origin # cwd

\* A decoy in the working directory, reached by a symlink that comes
\* first on sys.path, and the module loaded from elsewhere.
C5_Witness ==
    /\ JsonLoaded
    /\ jsonAt[cwd] # Absent
    /\ Len(sys_path) = 2
    /\ sys_path[1] \in Links
    /\ realpath(sys_path[1]) = cwd

\* C6: once the import has succeeded, in every later step both names are
\* bound to the two entry points of one library and neither is written
\* again, whatever happens to sys.path, the working directory or the
\* libraries.
C6_WriteOnce ==
    [][pc = "done" =>
          /\ pc' = "done"
          /\ loads' = loads
          /\ dumps' = dumps
          /\ loads # Unbound
          /\ dumps # Unbound
          /\ loads.lib = dumps.lib]_vars

\* The library the pair came from is gone, and the pair is still bound.
C6_Witness ==
    /\ pc = "done"
    /\ envChanges > 0
    /\ loads.lib = "simplejson"
    /\ simplejson = Absent

\* The library whose strategy succeeded: the last one attempted.
Selected ==
    IF "cjson" \in attempted THEN "cjson"
    ELSE IF "simplejson" \in attempted THEN "simplejson"
    ELSE "json"
\* The entry point of the selected library that goes by the name fn.
EntryPoint(fn) ==
    CASE Selected = "json" -> FuncRef("json", json.origin, fn)
      [] Selected = "simplejson" -> FuncRef("simplejson", "site", fn)
      [] Selected = "cjson" ->
            FuncRef("cjson", "site", IF fn = "loads" THEN "decode" ELSE "encode")

\* C7: every call through loads or dumps gives exactly the outcome, value
\* or error, that the selected library's own entry point gives on that
\* argument.
C7_PassThrough ==
    lastCall # NoCall =>
        lastCall.result = Apply(EntryPoint(lastCall.fn), lastCall.arg)

C7_Witness ==
    /\ lastCall.fn = "dumps"
    /\ lastCall.result.kind = "raise"
    /\ Selected = "cjson"
    /\ envChanges > 0

\* C9: whenever the import has succeeded, loads and dumps are both bound
\* and both come from the same library.
C9_SamePair ==
    pc = "done" =>
        /\ loads # Unbound
        /\ dumps # Unbound
        /\ loads.lib = dumps.lib
        /\ loads.origin = dumps.origin
        /\ loads.name # dumps.name

\* simplejson gave loads and no dumps, and the pair is cjson's.
C9_Witness ==
    /\ pc = "done"
    /\ simplejson.attrs = {"loads"}
    /\ loads.lib = "cjson"

\* C10: simplejson is attempted exactly when strategy 1 raised an import
\* error (json not found, or found and its load raised one), and cjson
\* exactly when the simplejson import raised one as well; a json module
\* that is found but gives no usable pair ends the import with its own
\* error and no fallback attempted.
C10_FallbackOnImportError ==
    /\ "simplejson" \in attempted => JsonImportError
    /\ "cjson" \in attempted => (JsonImportError /\ SimplejsonImportError)
    /\ (Terminal /\ JsonImportError) => "simplejson" \in attempted
    /\ (Terminal /\ JsonImportError /\ SimplejsonImportError) =>
          "cjson" \in attempted
    /\ (Terminal /\ JsonUnusable) =>
          /\ pc = "failed"
          /\ error \in {"AttributeError", "Error"}
          /\ attempted = {"json"}
          /\ loads = Unbound
          /\ dumps = Unbound

\* A json module lacking an entry point fails the import although both
\* fallbacks are there.
C10_Witness ==
    /\ pc = "failed"
    /\ error = "AttributeError"
    /\ SimplejsonHasPair
    /\ CjsonHasPair
=============================================================================
